---- MODULE Spec2Model ----
(***************************************************************************)
(* A model of the VBS frame server (vbs-server/src): the frame-identifier  *)
(* codec, the neighbour window, the metadata enrichment and the semantic   *)
(* search pipeline with its HTTP handlers.                                 *)
(*                                                                         *)
(* Conventions.                                                            *)
(*  - A Python str is a sequence of one-character strings, so that split,  *)
(*    int() and the format specification are computed and not assumed.     *)
(*  - A Python dict is a function from its keys; a missing key is a key    *)
(*    outside DOMAIN.  An optional value is <<>> (None) or <<v>>.          *)
(*  - A call that may raise returns [ok |-> FALSE, ...] for the exception. *)
(***************************************************************************)
EXTENDS Integers, Sequences, FiniteSets, TLC

VARIABLES
    \* FrameIdentifier codec (database.py: parse_s3_key, build_s3_key, parse_frame_n)
    cpc, ident, key, parsed,
    \* Metadata enrichment (database.py: enrich_frames_with_watch_urls)
    batch, metaStore, calls,
    \* The file_metadata collection, in the order a cursor yields its documents
    files,
    \* POST /neighbors (main.py: get_neighbor_frames; database.py: find_neighbors)
    npc, nreq, nresp,
    \* search_engine.py globals, and POST /search (main.py: search_text)
    tokenizer, model, faiss_index, frame_ids, spc, sreq, sresp, strace

codecVars == <<cpc, ident, key, parsed>>
enrichVars == <<batch, metaStore, calls>>
neighborVars == <<npc, nreq, nresp>>
engineVars == <<tokenizer, model, faiss_index, frame_ids>>
searchVars == <<tokenizer, model, faiss_index, frame_ids, spc, sreq, sresp, strace>>
vars == <<cpc, ident, key, parsed, batch, metaStore, calls, files, npc, nreq, nresp,
          tokenizer, model, faiss_index, frame_ids, spc, sreq, sresp, strace>>

(***************************************************************************)
(* Python values                                                           *)
(***************************************************************************)
None == <<>>
Some(v) == <<v>>

Max(a, b) == IF a >= b THEN a ELSE b
Min(a, b) == IF a <= b THEN a ELSE b

Digits == <<"0", "1", "2", "3", "4", "5", "6", "7", "8", "9">>
IsDigit(c) == \E d \in 1..10 : Digits[d] = c
DigitVal(c) == (CHOOSE d \in 1..10 : Digits[d] = c) - 1

\* str(n) for n >= 0
RECURSIVE NatToStr(_)
NatToStr(n) == IF n < 10 THEN <<Digits[n + 1]>>
               ELSE NatToStr(n \div 10) \o <<Digits[(n % 10) + 1]>>

\* str(n) for an int
IntToStr(n) == IF n < 0 THEN <<"-">> \o NatToStr(-n) ELSE NatToStr(n)

RECURSIVE Zeros(_)
Zeros(k) == IF k <= 0 THEN <<>> ELSE <<"0">> \o Zeros(k - 1)

\* format(n, "03d"): the sign first, then zeros up to a total width of 3
Format03d(n) ==
    LET sign == IF n < 0 THEN <<"-">> ELSE <<>>
        body == NatToStr(IF n < 0 THEN -n ELSE n)
    IN sign \o Zeros(3 - Len(sign) - Len(body)) \o body

\* s.split(sep)
RECURSIVE Split(_, _)
Split(s, sep) ==
    IF \A i \in 1..Len(s) : s[i] # sep THEN <<s>>
    ELSE LET i == CHOOSE i \in 1..Len(s) :
                      s[i] = sep /\ \A j \in 1..(i - 1) : s[j] # sep
         IN <<SubSeq(s, 1, i - 1)>> \o Split(SubSeq(s, i + 1, Len(s)), sep)

RECURSIVE DigitsToNat(_)
DigitsToNat(ds) ==
    IF ds = <<>> THEN 0
    ELSE DigitsToNat(SubSeq(ds, 1, Len(ds) - 1)) * 10 + DigitVal(ds[Len(ds)])

IsSpace(c) == c = " "

RECURSIVE Strip(_)
Strip(s) ==
    IF s = <<>> THEN s
    ELSE IF IsSpace(s[1]) THEN Strip(Tail(s))
    ELSE IF IsSpace(s[Len(s)]) THEN Strip(SubSeq(s, 1, Len(s) - 1))
    ELSE s

ValueError == [ok |-> FALSE, exc |-> "ValueError"]
RuntimeError == [ok |-> FALSE, exc |-> "RuntimeError"]
IndexError == [ok |-> FALSE, exc |-> "IndexError"]
PyMongoError == [ok |-> FALSE, exc |-> "PyMongoError"]
Returned(v) == [ok |-> TRUE, val |-> v]

\* int(s) of a str holding no "_": surrounding whitespace is stripped, one
\* sign is accepted, the rest must be one or more decimal digits.
PyInt(s) ==
    LET t == Strip(s)
        signed == t # <<>> /\ t[1] \in {"+", "-"}
        body == IF signed THEN Tail(t) ELSE t
    IN IF body = <<>> \/ \E i \in 1..Len(body) : ~IsDigit(body[i])
       THEN ValueError
       ELSE Returned(IF signed /\ t[1] = "-" THEN -DigitsToNat(body)
                     ELSE DigitsToNat(body))

(***************************************************************************)
(* FrameIdentifier codec                                                   *)
(***************************************************************************)
parse_s3_key(s3_key) ==
    LET parts == Split(s3_key, "_")
    IN IF Len(parts) # 3 THEN ValueError
       ELSE LET frame_number == PyInt(parts[3])
            IN IF ~frame_number.ok THEN ValueError
               ELSE Returned(<<parts[1], parts[2], frame_number.val>>)

\* A build that keeps the three low digits only ("%03d" confused with a width limit).
build_s3_key_truncating(l, v, frame_num) ==
    l \o <<"_">> \o v \o <<"_">> \o Format03d(frame_num % 1000)

build_s3_key(l, v, frame_num) ==
    l \o <<"_">> \o v \o <<"_">> \o Format03d(frame_num)

parse_frame_n(frame_n) ==
    LET parts == Split(frame_n, "_")
    IN IF Len(parts) # 3 THEN ValueError
       ELSE LET frame_index == PyInt(parts[3])
            IN IF ~frame_index.ok THEN ValueError
               ELSE Returned(<<parts[1], parts[2], frame_index.val>>)

(***************************************************************************)
(* The state of a part of the server that a specification leaves alone     *)
(***************************************************************************)
CodecIdle ==
    /\ cpc = "off"
    /\ ident = <<>>
    /\ key = <<>>
    /\ parsed = <<>>

SearchIdle ==
    /\ tokenizer = FALSE /\ model = FALSE /\ faiss_index = FALSE
    /\ frame_ids = <<>>
    /\ spc = "off"
    /\ sreq = <<>>
    /\ sresp = <<>>
    /\ strace = <<>>

NeighborIdle ==
    /\ npc = "off"
    /\ nreq = <<>>
    /\ nresp = <<>>

EnrichIdle ==
    /\ batch = <<>>
    /\ metaStore = <<>>
    /\ calls = <<>>

(***************************************************************************)
(* Codec inputs                                                            *)
(***************************************************************************)
MaxTextLen == 6
MaxPos == 1002
MinPos == 2

Alphabet == {"L", "_", "1", "-", "a"}
Texts == UNION {[1..k -> Alphabet] : k \in 0..MaxTextLen}

Names == {<<"L", "2", "1">>, <<"V", "0", "0", "1">>, <<"K">>, <<>>, <<"a", "_", "b">>}
Idents == Names \X Names \X ((0 - MinPos)..MaxPos)
NoIdent == <<>>
NotParsed == [ok |-> FALSE, exc |-> "not called"]

CodecInit ==
    /\ EnrichIdle /\ NeighborIdle /\ SearchIdle /\ files = <<>>
    /\ parsed = NotParsed
    /\ \/ cpc = "ident" /\ ident \in Idents /\ key = <<>>
       \/ cpc = "text" /\ ident = NoIdent /\ key \in Texts

BuildS3Key ==
    /\ cpc = "ident"
    /\ key' = build_s3_key(ident[1], ident[2], ident[3])
    /\ cpc' = "text"
    /\ UNCHANGED <<ident, parsed>>
    /\ UNCHANGED <<enrichVars, neighborVars, searchVars, files>>

ParseS3Key ==
    /\ cpc = "text"
    /\ parsed' = parse_s3_key(key)
    /\ cpc' = "done"
    /\ UNCHANGED <<ident, key>>
    /\ UNCHANGED <<enrichVars, neighborVars, searchVars, files>>

ParseFrameN ==
    /\ cpc = "text"
    /\ parsed' = parse_frame_n(key)
    /\ cpc' = "done"
    /\ UNCHANGED <<ident, key>>
    /\ UNCHANGED <<enrichVars, neighborVars, searchVars, files>>

CodecNext == BuildS3Key \/ ParseS3Key \/ ParseFrameN

SpecCodec == CodecInit /\ [][CodecNext]_vars

(***************************************************************************)
(* Codec claims                                                            *)
(***************************************************************************)
HasSep(s) == \E i \in 1..Len(s) : s[i] = "_"

\* A valid FrameIdentifier: two non-empty names free of the separator and a
\* non-negative position.
ValidIdent(x) ==
    /\ x # NoIdent
    /\ x[1] # <<>> /\ ~HasSep(x[1])
    /\ x[2] # <<>> /\ ~HasSep(x[2])
    /\ x[3] >= 0

\* C3: for every valid identifier x (a position of any width included),
\* parse(format(x)) = x, and format yields a key for it.
C3_RoundTrip ==
    (cpc = "done" /\ ValidIdent(ident)) => parsed = Returned(ident)

C3_Witness ==
    /\ cpc = "done" /\ ValidIdent(ident) /\ ident[3] >= 1000
    /\ parsed = Returned(ident)

\* The identifier grammar of the specification: exactly three non-empty
\* segments, the third one made of decimal digits only.
WellFormed(s) ==
    LET parts == Split(s, "_")
    IN /\ Len(parts) = 3
       /\ \A i \in 1..3 : parts[i] # <<>>
       /\ \A i \in 1..Len(parts[3]) : IsDigit(parts[3][i])

\* C4: parse fails for every input that is not three non-empty segments with
\* a non-negative integer position; it never returns a tuple for one.
C4_MalformedRejected ==
    (cpc = "done" /\ ~WellFormed(key)) => ~parsed.ok

(***************************************************************************)
(* Python dicts                                                            *)
(***************************************************************************)
\* d.get(k): None for a missing key
Get(d, k) == IF k \in DOMAIN d THEN d[k] ELSE None

\* d.get(k, default)
GetDefault(d, k, default) == IF k \in DOMAIN d THEN d[k] ELSE default

\* d[k] = v
Put(d, k, v) == [x \in DOMAIN d \cup {k} |-> IF x = k THEN v ELSE d[x]]

\* bool(x) of an optional number, of an optional str
TruthyNum(x) == x # None /\ x[1] # 0
TruthyStr(x) == x # None /\ x[1] # <<>>

(***************************************************************************)
(* Metadata enrichment (database.py)                                       *)
(*                                                                         *)
(* pts_time is a float; the model keeps it in tenths of a second, so 1237  *)
(* is 123.7 s and -15 is -1.5 s.                                           *)
(***************************************************************************)
\* int(x) of a float given in tenths: the fraction is dropped, towards zero
IntOfFloatFloor(tenths) == tenths \div 10

IntOfFloat(tenths) ==
    IF tenths >= 0 THEN tenths \div 10 ELSE 0 - ((0 - tenths) \div 10)

generate_watch_url(video_metadata, pts_time) ==
    LET watch_url == GetDefault(video_metadata, "watch_url", Some(<<>>))
    IN IF TruthyNum(pts_time) /\ TruthyStr(watch_url)
       THEN LET timestamp_seconds == IntOfFloat(pts_time[1])
            IN watch_url[1] \o <<"&", "t", "=">> \o IntToStr(timestamp_seconds) \o <<"s">>
       ELSE IF TruthyStr(watch_url) THEN watch_url[1] ELSE <<>>

\* x[:50] of the title: a str can be sliced, None cannot (TypeError)
Sliceable(title) == title # None

\* A lookup whose error escapes to the caller.
OnLookupErrorRaise == [ok |-> FALSE, exc |-> "Exception"]

\* except Exception: log, return None
OnLookupError == Returned(None)

\* The store answers with Some(document), with None, or the query raises.
get_video_metadata(video_id, store, db_raises) ==
    IF db_raises THEN OnLookupError
    ELSE LET result == IF video_id \in DOMAIN store THEN store[video_id] ELSE None
         IN IF result # None
            THEN IF ~Sliceable(GetDefault(result[1], "title", Some(<<"U">>)))
                 THEN OnLookupError
                 ELSE Returned(result)
            ELSE Returned(None)

\* The keys of all the frames, an absent or empty one as ""
video_ids_unfiltered(frames) ==
    {IF TruthyStr(Get(frames[i], "video_id")) THEN Get(frames[i], "video_id")[1] ELSE <<>> :
        i \in 1..Len(frames)}

\* {frame.get("video_id") for frame in frames if frame.get("video_id")},
\* then the same filter once more
video_ids_clean(frames) ==
    LET video_ids == {Get(frames[i], "video_id")[1] :
                        i \in {j \in 1..Len(frames) : TruthyStr(Get(frames[j], "video_id"))}}
    IN {vid \in video_ids : vid # <<>>}

\* One turn of the loop over the frames
EnrichOne(frame, video_metadata_cache) ==
    LET frame_copy == frame
        video_id == Get(frame, "video_id")
        pts_time == Get(frame, "pts_time")
    IN IF TruthyStr(video_id) /\ video_id[1] \in DOMAIN video_metadata_cache
       THEN Put(Put(frame_copy, "watch_url",
                    Some(generate_watch_url(video_metadata_cache[video_id[1]], pts_time))),
                "video_fps", Get(frame, "fps"))
       ELSE Put(Put(frame_copy, "watch_url", Some(<<>>)), "video_fps", Get(frame, "fps"))

EnrichLoop(frames, video_metadata_cache) ==
    [i \in 1..Len(frames) |-> EnrichOne(frames[i], video_metadata_cache)]

(***************************************************************************)
(* Enrichment inputs                                                       *)
(***************************************************************************)
MaxFrames == 2

VidA == <<"L", "_", "V">>
VidB == <<"L", "_", "W">>
BaseUrl == <<"u">>

EnrichFrames == {
    [s3_key |-> "A", video_id |-> Some(VidA), pts_time |-> Some(1237), fps |-> Some(25)],
    [s3_key |-> "B", video_id |-> Some(VidA), pts_time |-> Some(0), fps |-> Some(30)],
    [s3_key |-> "C", video_id |-> Some(VidA), pts_time |-> Some(0 - 15)],
    [s3_key |-> "D", video_id |-> Some(VidB), fps |-> Some(25)],
    [s3_key |-> "E", pts_time |-> Some(7), fps |-> Some(25)],
    [s3_key |-> "F", video_id |-> Some(<<>>), pts_time |-> None, fps |-> Some(25)] }

Batches == UNION {[1..k -> EnrichFrames] : k \in 0..MaxFrames}

\* What the video_metadata collection may hold for a video: nothing, or one document
MetaDocs(vid) == {
    None,
    Some([video_id |-> Some(vid), watch_url |-> Some(BaseUrl), title |-> Some(<<"T">>)]),
    Some([video_id |-> Some(vid), title |-> Some(<<"T">>)]),
    Some([video_id |-> Some(vid), watch_url |-> Some(BaseUrl), title |-> None]) }

\* The second video has a document with a watch_url and no title, or none
MetaDocsPlain(vid) == {
    None,
    Some([video_id |-> Some(vid), watch_url |-> Some(BaseUrl)]) }

MetaStores ==
    {s \in [{VidA, VidB} -> MetaDocs(VidA) \cup MetaDocsPlain(VidB)] :
        s[VidA] \in MetaDocs(VidA) /\ s[VidB] \in MetaDocsPlain(VidB)}

Calls == {1, 2}

\* queries counts the find_one calls per video_id and raised tells whether one of
\* them raised: both are history, kept for the claims, that the code does not hold.
IdleCall == [pc |-> "idle", todo |-> {}, cache |-> <<>>, queries |-> <<>>,
             raised |-> FALSE, out |-> <<>>]

EnrichInit ==
    /\ CodecIdle /\ NeighborIdle /\ SearchIdle /\ files = <<>>
    /\ batch \in Batches
    /\ metaStore \in MetaStores
    /\ calls = [c \in Calls |-> IdleCall]

\* enrich_frames_with_watch_urls up to its first await
EnrichStart(c) ==
    /\ calls[c].pc = "idle"
    /\ calls' = [calls EXCEPT ![c] =
                    IF batch = <<>>
                    THEN [calls[c] EXCEPT !.pc = "done", !.out = <<>>]
                    ELSE [calls[c] EXCEPT !.pc = "fetching",
                                          !.todo = video_ids_clean(batch)]]
    /\ UNCHANGED <<batch, metaStore>>
    /\ UNCHANGED <<codecVars, neighborVars, searchVars, files>>

\* One turn of the loop over video_ids_clean: await get_video_metadata(video_id).
\* A set is iterated in no particular order.
FetchMetadata(c) ==
    /\ calls[c].pc = "fetching"
    /\ \E video_id \in calls[c].todo, db_raises \in BOOLEAN :
          LET metadata == get_video_metadata(video_id, metaStore, db_raises)
              me == calls[c]
              asked == [me EXCEPT !.queries = Put(me.queries, video_id,
                                                  GetDefault(me.queries, video_id, 0) + 1),
                                  !.raised = me.raised \/ db_raises]
          IN calls' = [calls EXCEPT ![c] =
                 IF ~metadata.ok
                 THEN [asked EXCEPT !.pc = "failed"]
                 ELSE [asked EXCEPT !.todo = me.todo \ {video_id},
                                    !.cache = IF metadata.val # None
                                              THEN Put(me.cache, video_id, metadata.val[1])
                                              ELSE me.cache]]
    /\ UNCHANGED <<batch, metaStore>>
    /\ UNCHANGED <<codecVars, neighborVars, searchVars, files>>

\* The loop over the frames and the return: no await in between
EnrichFinish(c) ==
    /\ calls[c].pc = "fetching"
    /\ calls[c].todo = {}
    /\ calls' = [calls EXCEPT ![c] =
                    [calls[c] EXCEPT !.pc = "done",
                                     !.out = EnrichLoop(batch, calls[c].cache)]]
    /\ UNCHANGED <<batch, metaStore>>
    /\ UNCHANGED <<codecVars, neighborVars, searchVars, files>>

\* Another client of the database rewrites a video's metadata
UpdateMetadata ==
    /\ \E vid \in DOMAIN metaStore, s \in MetaStores :
          /\ s[vid] # metaStore[vid]
          /\ metaStore' = [metaStore EXCEPT ![vid] = s[vid]]
    /\ UNCHANGED <<batch, calls>>
    /\ UNCHANGED <<codecVars, neighborVars, searchVars, files>>

EnrichNext ==
    \/ \E c \in Calls : EnrichStart(c)
    \/ \E c \in Calls : FetchMetadata(c)
    \/ \E c \in Calls : EnrichFinish(c)
    \/ UpdateMetadata

SpecEnrich == EnrichInit /\ [][EnrichNext]_vars

(***************************************************************************)
(* Enrichment claims                                                       *)
(***************************************************************************)
Finished(c) == calls[c].pc = "done"

VideoKeyOf(frame) == Get(frame, "video_id")

\* The frame's VideoKey has a record in the call's lookup
InLookup(c, i) ==
    /\ TruthyStr(VideoKeyOf(batch[i]))
    /\ VideoKeyOf(batch[i])[1] \in DOMAIN calls[c].cache

\* base_watch_url of the record found for frame i: "" when absent
BaseWatchUrl(c, i) ==
    LET md == calls[c].cache[VideoKeyOf(batch[i])[1]]
    IN IF "watch_url" \in DOMAIN md /\ md["watch_url"] # None
       THEN md["watch_url"][1] ELSE <<>>

Abs(n) == IF n < 0 THEN 0 - n ELSE n

\* floor(x) and the integer part of x (towards zero), x in tenths
FloorSeconds(tenths) ==
    CHOOSE n \in -200..200 : n * 10 <= tenths /\ tenths < (n + 1) * 10
WholeSeconds(tenths) ==
    CHOOSE n \in -200..200 :
        /\ n * tenths >= 0
        /\ Abs(n) * 10 <= Abs(tenths) /\ Abs(tenths) < (Abs(n) + 1) * 10

ExpectedWatchUrl(c, i, seconds) ==
    IF TruthyNum(Get(batch[i], "pts_time")) /\ BaseWatchUrl(c, i) # <<>>
    THEN BaseWatchUrl(c, i) \o <<"&", "t", "=">> \o IntToStr(seconds) \o <<"s">>
    ELSE BaseWatchUrl(c, i)

\* C7 as stated: with a metadata record, watch_url is base + "&t=" +
\* floor(pts_time) + "s" when pts_time is truthy and base is non-empty, else
\* base; for every pts_time, negative ones included.
C7_WatchUrlFloor ==
    \A c \in DOMAIN calls : Finished(c) =>
        \A i \in 1..Len(batch) : InLookup(c, i) =>
            calls[c].out[i]["watch_url"] =
                Some(ExpectedWatchUrl(c, i,
                        IF Get(batch[i], "pts_time") = None THEN 0
                        ELSE FloorSeconds(Get(batch[i], "pts_time")[1])))

\* C7 amended: the seconds are the integer part of pts_time, fraction dropped
\* towards zero (the floor for pts_time >= 0 only).
C7_WatchUrlWhole ==
    \A c \in DOMAIN calls : Finished(c) =>
        \A i \in 1..Len(batch) : InLookup(c, i) =>
            calls[c].out[i]["watch_url"] =
                Some(ExpectedWatchUrl(c, i,
                        IF Get(batch[i], "pts_time") = None THEN 0
                        ELSE WholeSeconds(Get(batch[i], "pts_time")[1])))

C7_Witness ==
    \E c \in DOMAIN calls : Finished(c) /\
        \E i, j \in 1..Len(batch) :
            /\ InLookup(c, i) /\ Get(batch[i], "pts_time") = Some(0 - 15)
            /\ calls[c].out[i]["watch_url"] = Some(<<"u", "&", "t", "=", "-", "1", "s">>)
            /\ InLookup(c, j) /\ Get(batch[j], "pts_time") = Some(1237)
            /\ calls[c].out[j]["watch_url"] =
                   Some(<<"u", "&", "t", "=", "1", "2", "3", "s">>)

\* C8: enrichment does not fail on missing metadata or on a lookup that
\* errors; it returns one frame per input frame, in order, each input field
\* kept; without a VideoKey or without metadata watch_url is ""; video_fps is
\* the frame's fps either way.
C8_PartialEnrichment ==
    \A c \in DOMAIN calls :
        /\ calls[c].pc # "failed"
        /\ Finished(c) =>
            /\ Len(calls[c].out) = Len(batch)
            /\ \A i \in 1..Len(batch) :
                LET o == calls[c].out[i]
                IN /\ DOMAIN o = DOMAIN batch[i] \cup {"watch_url", "video_fps"}
                   /\ \A k \in DOMAIN batch[i] : o[k] = batch[i][k]
                   /\ o["video_fps"] = Get(batch[i], "fps")
                   /\ ~InLookup(c, i) => o["watch_url"] = Some(<<>>)

C8_Witness ==
    \E c \in DOMAIN calls : Finished(c) /\ calls[c].raised /\
        \E i, j \in 1..Len(batch) :
            /\ ~InLookup(c, i) /\ TruthyStr(VideoKeyOf(batch[i]))
            /\ calls[c].out[i]["watch_url"] = Some(<<>>)
            /\ calls[c].out[i]["video_fps"] = Some(25)
            /\ InLookup(c, j) /\ calls[c].out[j]["watch_url"] # Some(<<>>)

\* The distinct, non-empty VideoKeys among the input frames
VideoKeys ==
    {VideoKeyOf(batch[i])[1] :
        i \in {j \in 1..Len(batch) :
                  VideoKeyOf(batch[j]) # None /\ VideoKeyOf(batch[j]) # Some(<<>>)}}

\* At every moment of a call the store has been queried for VideoKeys of the
\* input only and at most once each, and the lookup holds queried keys only;
\* at the return it has been queried exactly once for each of them.
QueriedOncePerKey ==
    \A c \in DOMAIN calls :
        /\ DOMAIN calls[c].queries \subseteq VideoKeys
        /\ \A vid \in DOMAIN calls[c].queries : calls[c].queries[vid] = 1
        /\ DOMAIN calls[c].cache \subseteq DOMAIN calls[c].queries
        /\ (Finished(c) /\ batch # <<>>) => DOMAIN calls[c].queries = VideoKeys

\* A record enters (or changes in) the lookup of a call only in a step of
\* that call, and it is the record the store holds at that step: nothing
\* comes from the lookup of another call or from an earlier state of the store.
LookupFromOwnFetch ==
    \A c \in DOMAIN calls :
        \A vid \in DOMAIN calls'[c].cache :
            (vid \notin DOMAIN calls[c].cache \/ calls'[c].cache[vid] # calls[c].cache[vid])
                => /\ calls[c].pc = "fetching"
                   /\ GetDefault(calls'[c].queries, vid, 0) =
                          GetDefault(calls[c].queries, vid, 0) + 1
                   /\ metaStore[vid] = Some(calls'[c].cache[vid])

\* C13: within one enrichment call the Metadata Store is queried exactly once
\* per distinct non-empty VideoKey of the input and never for an empty or
\* missing key; the lookup is built from the call's own fetches, so a call
\* sees the store as it is when that call asks, whatever another call holds.
C13_OncePerKeyLocalLookup ==
    []QueriedOncePerKey /\ [][LookupFromOwnFetch]_vars

\* Two frames share a key, each call asked once, and the later call holds the
\* record written between the calls, not the one the earlier call holds
C13_Witness ==
    /\ Finished(1) /\ Finished(2)
    /\ Len(batch) = 2
    /\ VideoKeyOf(batch[1]) = Some(VidA) /\ VideoKeyOf(batch[2]) = Some(VidA)
    /\ calls[1].queries[VidA] = 1 /\ calls[2].queries[VidA] = 1
    /\ VidA \in DOMAIN calls[1].cache /\ VidA \in DOMAIN calls[2].cache
    /\ calls[1].cache[VidA] # calls[2].cache[VidA]
    /\ metaStore[VidA] = Some(calls[2].cache[VidA])

(***************************************************************************)
(* Neighbour window (database.py: find_neighbors) and POST /neighbors      *)
(***************************************************************************)
Front(s) == SubSeq(s, 1, Len(s) - 1)
Last(s) == s[Len(s)]

\* list.sort(key=lambda x: x[0]): a stable sort, an element goes behind the
\* elements that compare equal to it
RECURSIVE InsertByFirst(_, _)
InsertByFirst(sorted, x) ==
    IF sorted = <<>> THEN <<x>>
    ELSE IF Last(sorted)[1] <= x[1] THEN Append(sorted, x)
    ELSE Append(InsertByFirst(Front(sorted), x), Last(sorted))

\* The elements s[lo..hi] put one after the other, in their order, into sorted
RECURSIVE InsertRange(_, _, _, _)
InsertRange(sorted, s, lo, hi) ==
    IF lo > hi THEN sorted
    ELSE IF lo = hi THEN InsertByFirst(sorted, s[lo])
    ELSE LET mid == (lo + hi) \div 2
             left == InsertRange(sorted, s, lo, mid)
         IN IF Len(left) = Len(sorted) + (mid - lo + 1)
            THEN InsertRange(left, s, mid + 1, hi)
            ELSE left

SortByFirst(s) == InsertRange(<<>>, s, 1, Len(s))

\* collection.find({"video_id": video_id}): the matching documents, in cursor order
FindByVideoId(collection, video_id) ==
    SelectSeq(collection, LAMBDA doc : Get(doc, "video_id") = Some(video_id))

\* cursor.to_list(length=n): at most n documents
ToList(cursor, length) == SubSeq(cursor, 1, Min(Len(cursor), length))

FetchLength == 1000

\* The (frame_idx, doc) pairs of the documents that have a frame_idx
FrameData(docs) ==
    LET with_idx == SelectSeq(docs, LAMBDA doc : Get(doc, "frame_idx") # None)
    IN [i \in 1..Len(with_idx) |-> <<with_idx[i]["frame_idx"][1], with_idx[i]>>]

\* The 0-based index of the first pair whose frame_idx is the target, or None
FindTargetIdx(frame_data, target_frame_idx) ==
    LET hits == {i \in 1..Len(frame_data) : frame_data[i][1] = target_frame_idx}
    IN IF hits = {} THEN None
       ELSE Some((CHOOSE i \in hits : \A j \in hits : i <= j) - 1)

\* A window of limit frames on each side.
half_limit_whole(limit) == limit

\* limit // 2 (floor division)
half_limit(limit) == limit \div 2

\* A malformed identifier that escapes as a fault.
OnValueErrorRaise == ValueError

\* except ValueError: return []
OnValueError == Returned(<<>>)

find_neighbors(frame_n, limit, collection, db_raises) ==
    LET target == parse_frame_n(frame_n)
    IN IF ~target.ok THEN OnValueError
       ELSE LET video_id == target.val[1] \o <<"_">> \o target.val[2]
                target_frame_idx == target.val[3]
            IN IF db_raises THEN PyMongoError
               ELSE LET docs == ToList(FindByVideoId(collection, video_id), FetchLength)
                        frame_data == SortByFirst(FrameData(docs))
                        target_idx == FindTargetIdx(frame_data, target_frame_idx)
                    IN IF docs = <<>> THEN Returned(<<>>)
                       ELSE IF target_idx = None THEN Returned(<<>>)
                       ELSE LET start_idx == Max(0, target_idx[1] - half_limit(limit))
                                end_idx == Min(Len(frame_data),
                                               target_idx[1] + half_limit(limit) + 1)
                            IN Returned([i \in 1..(end_idx - start_idx) |->
                                            frame_data[start_idx + i][2]])

\* FrameResponse(frames=docs, count=len(docs)), or the handler's
\* except Exception: raise HTTPException(status_code=500)
FrameResponse(docs) == [status |-> 200, frames |-> docs, count |-> Len(docs)]
HTTPException(status_code) == [status |-> status_code, frames |-> <<>>, count |-> 0]

get_neighbor_frames(request, collection, db_raises) ==
    LET docs == find_neighbors(request.s3_key, request.limit, collection, db_raises)
    IN IF docs.ok THEN FrameResponse(docs.val) ELSE HTTPException(500)

(***************************************************************************)
(* Neighbour inputs                                                        *)
(***************************************************************************)
MaxDocs == 4
MaxLimit == 4

KeyNames == <<"A", "B", "C", "D", "E", "F", "G", "H">>
Positions == {1, 2, 3}

\* What the i-th document of the collection may be: a frame of the video L_V
\* at one of the positions or without a frame_idx, or a frame of the video L_W
NeighborDocs(i) ==
    {[s3_key |-> KeyNames[i], video_id |-> Some(VidA), frame_idx |-> Some(n)] :
        n \in Positions}
    \cup {[s3_key |-> KeyNames[i], video_id |-> Some(VidA)],
          [s3_key |-> KeyNames[i], video_id |-> Some(VidB), frame_idx |-> Some(2)]}

RECURSIVE StoresOfLen(_)
StoresOfLen(k) ==
    IF k = 0 THEN {<<>>}
    ELSE {Append(s, doc) : s \in StoresOfLen(k - 1), doc \in NeighborDocs(k)}

\* A video of one frame more than find_neighbors reads from its cursor: the
\* frames of L_V at the positions 1, 2, ... in the order of their positions
LongVideo ==
    [n \in 1..(FetchLength + 1) |->
        [s3_key |-> "Z", video_id |-> Some(VidA), frame_idx |-> Some(n)]]

NeighborStores == UNION {StoresOfLen(k) : k \in 0..MaxDocs} \cup {LongVideo}

RequestTexts ==
    {build_s3_key(<<"L">>, <<"V">>, n) : n \in 1..4}
    \cup {build_s3_key(<<"L">>, <<"V">>, FetchLength + 1)}
    \cup {<<>>,
          <<"L", "_", "V">>,
          <<"L", "_", "V", "_", "a">>,
          <<"L", "_", "V", "_", "1", "_", "1">>,
          <<"L", "_", "V", "_", "-", "1">>,
          <<"L", "_", "V", "_", "2">>,
          <<"L", "_", "W", "_", "0", "0", "2">>}

\* NeighborRequest.limit is an int without a constraint
Limits == {0 - 2, 0 - 1} \cup 0..MaxLimit

NeighborInit ==
    /\ CodecIdle /\ EnrichIdle /\ SearchIdle
    /\ files \in NeighborStores
    /\ npc = "idle"
    /\ nreq = <<>>
    /\ nresp = <<>>

GetNeighborFrames ==
    /\ npc = "idle"
    /\ \E s3_key \in RequestTexts, limit \in Limits, db_raises \in BOOLEAN :
          /\ nreq' = [s3_key |-> s3_key, limit |-> limit, db_raises |-> db_raises]
          /\ nresp' = get_neighbor_frames(nreq', files, db_raises)
    /\ npc' = "done"
    /\ UNCHANGED <<codecVars, enrichVars, searchVars, files>>

NeighborNext == GetNeighborFrames

SpecNeighbors == NeighborInit /\ [][NeighborNext]_vars

(***************************************************************************)
(* Neighbour claims                                                        *)
(***************************************************************************)
NeighborDone == npc = "done"
Target == parse_frame_n(nreq.s3_key)

\* The records find_neighbors works on: the fetched documents of the target's
\* video that carry a position, in the order the cursor yields them
FetchedRecords ==
    LET video == SelectSeq(files, LAMBDA doc :
                     Get(doc, "video_id") = Some(Target.val[1] \o <<"_">> \o Target.val[2]))
        fetched == SubSeq(video, 1, Min(Len(video), FetchLength))
    IN SelectSeq(fetched, LAMBDA doc : "frame_idx" \in DOMAIN doc)

PositionOf(doc) == doc["frame_idx"][1]

\* The 0-based place of records[j] once the records are sorted ascending by
\* position, records of one position staying in their order
RankOf(records, j) ==
    Cardinality({k \in 1..Len(records) :
        \/ PositionOf(records[k]) < PositionOf(records[j])
        \/ PositionOf(records[k]) = PositionOf(records[j]) /\ k < j})

TargetPresent ==
    /\ Target.ok
    /\ LET records == FetchedRecords
       IN \E j \in 1..Len(records) : PositionOf(records[j]) = Target.val[3]

\* The window [max(0, idx-half), min(len, idx+half+1)) of the claim
WindowOf(records, position, limit) ==
    LET idx == Cardinality({k \in 1..Len(records) : PositionOf(records[k]) < position})
        half == CHOOSE h \in 0..limit : 2 * h <= limit /\ limit < 2 * h + 2
        lo == IF idx - half < 0 THEN 0 ELSE idx - half
        hi == IF idx + half + 1 > Len(records) THEN Len(records) ELSE idx + half + 1
    IN [lo |-> lo, hi |-> hi]

\* C2: with the target position present and limit >= 0, find_neighbors returns
\* exactly the slice [max(0, idx-half), min(len, idx+half+1)) of the records
\* stably sorted ascending by position, half = limit // 2, idx the index of
\* the first record at the target position.
C2_NeighborWindow ==
    (NeighborDone /\ ~nreq.db_raises /\ TargetPresent /\ nreq.limit >= 0) =>
        LET records == FetchedRecords
            w == WindowOf(records, Target.val[3], nreq.limit)
        IN /\ nresp.status = 200
           /\ Len(nresp.frames) = w.hi - w.lo
           /\ \A m \in 1..(w.hi - w.lo) :
                 \E j \in 1..Len(records) :
                    /\ RankOf(records, j) = w.lo + m - 1
                    /\ nresp.frames[m] = records[j]

\* The target is the first of the sorted records and the window of 2 on each
\* side is cut at the lower end: three frames, two of them at one position.
C2_Witness ==
    /\ NeighborDone /\ ~nreq.db_raises /\ TargetPresent /\ nreq.limit = 4
    /\ Len(FetchedRecords) >= 4
    /\ Len(nresp.frames) = 3
    /\ PositionOf(nresp.frames[1]) = Target.val[3]
    /\ PositionOf(nresp.frames[1]) < PositionOf(nresp.frames[2])
    /\ PositionOf(nresp.frames[2]) = PositionOf(nresp.frames[3])

\* C9: an empty list with count 0 and no fault when the identifier is
\* malformed, when the store holds no frame of the parsed VideoKey, and when no
\* fetched frame has the target position.
C9_NoDataIsEmpty ==
    NeighborDone =>
        /\ ~Target.ok => nresp = [status |-> 200, frames |-> <<>>, count |-> 0]
        /\ (Target.ok /\ ~nreq.db_raises /\ ~TargetPresent)
              => nresp = [status |-> 200, frames |-> <<>>, count |-> 0]

C9_Witness ==
    /\ NeighborDone
    /\ ~Target.ok
    /\ nreq.s3_key = <<"L", "_", "V", "_", "a">>
    /\ \E i \in 1..Len(files) : Get(files[i], "video_id") = Some(VidA)
    /\ nresp = [status |-> 200, frames |-> <<>>, count |-> 0]

\* The frames of the target's video that the store holds at the target position
StoredAtTarget ==
    {i \in 1..Len(files) :
        /\ Get(files[i], "video_id") = Some(Target.val[1] \o <<"_">> \o Target.val[2])
        /\ Get(files[i], "frame_idx") = Some(Target.val[3])}

\* C14: whenever the store holds a frame of the parsed VideoKey at the target
\* position (and the window is not asked with a negative limit), the result
\* is non-empty and contains such a frame, however many frames the video has.
C14_AllFramesOfVideo ==
    (NeighborDone /\ Target.ok /\ ~nreq.db_raises /\ nreq.limit >= 0
        /\ StoredAtTarget # {}) =>
        /\ nresp.status = 200
        /\ \E m \in 1..Len(nresp.frames) :
              \E i \in StoredAtTarget : nresp.frames[m] = files[i]

\* C16: for every limit the request accepts, zero and negative ones included,
\* when the target position is among the fetched frames the window returned
\* contains a frame at the target position.
C16_WindowHoldsTarget ==
    (NeighborDone /\ ~nreq.db_raises /\ TargetPresent) =>
        /\ nresp.status = 200
        /\ \E m \in 1..Len(nresp.frames) :
              /\ "frame_idx" \in DOMAIN nresp.frames[m]
              /\ PositionOf(nresp.frames[m]) = Target.val[3]

(***************************************************************************)
(* Semantic search (search_engine.py) and POST /search (main.py)           *)
(*                                                                         *)
(* The embedding model and the FAISS index are collaborators: the model    *)
(* keeps whether each is loaded, and draws what the index answers.  An     *)
(* answer is a pair of parallel arrays, indices and distances; FAISS       *)
(* itself always fills them to the k asked for, with -1 for a neighbour it *)
(* does not have, and the interface of the specification allows any        *)
(* length up to k.                                                         *)
(***************************************************************************)
TruthyList(x) == x # None /\ x[1] # <<>>

\* all([tokenizer, model, faiss_index, frame_ids])
is_loaded == tokenizer /\ model /\ faiss_index /\ TruthyList(frame_ids)

\* The embedding itself is the collaborator's business
encode_text_query ==
    IF ~tokenizer THEN RuntimeError
    ELSE IF ~model THEN RuntimeError
    ELSE Returned("embedding")

\* A bound check that takes ordinal 0 for invalid.
InRangeFromOne(idx, table) == 0 < idx /\ idx < Len(table)

\* 0 <= idx < len(frame_ids)
InRange(idx, table) == 0 <= idx /\ idx < Len(table)

\* Turns i, i+1, ..., limit-1 of "for i in range(limit)"; found holds the two
\* result lists so far.  indices[0][i] past the end of the array raises.
RECURSIVE VectorLoop(_, _, _, _)
VectorLoop(answer, limit, i, found) ==
    IF i >= limit THEN Returned(found)
    ELSE IF i >= Len(answer.indices) THEN IndexError
    ELSE LET idx == answer.indices[i + 1]
         IN VectorLoop(answer, limit, i + 1,
                IF InRange(idx, frame_ids[1])
                THEN [result_frame_ids |->
                          Append(found.result_frame_ids, frame_ids[1][idx + 1]),
                      result_scores |->
                          Append(found.result_scores, answer.distances[i + 1])]
                ELSE found)

vector_search(answer, limit) ==
    IF ~faiss_index \/ ~TruthyList(frame_ids) THEN RuntimeError
    ELSE VectorLoop(answer, limit, 0, [result_frame_ids |-> <<>>, result_scores |-> <<>>])

\* results.sort(key=lambda x: x['score']): stable
RECURSIVE InsertByScore(_, _)
InsertByScore(sorted, x) ==
    IF sorted = <<>> THEN <<x>>
    ELSE IF Last(sorted).score <= x.score THEN Append(sorted, x)
    ELSE Append(InsertByScore(Front(sorted), x), Last(sorted))

RECURSIVE SortByScore(_)
SortByScore(s) ==
    IF s = <<>> THEN <<>> ELSE InsertByScore(SortByScore(Front(s)), Last(s))

search_text(answer, limit) ==
    IF ~is_loaded THEN RuntimeError
    ELSE IF ~encode_text_query.ok THEN encode_text_query
    ELSE LET found == vector_search(answer, limit)
         IN IF ~found.ok THEN found
            ELSE Returned(SortByScore(
                    [i \in 1..Len(found.val.result_frame_ids) |->
                        [image_id |-> found.val.result_frame_ids[i],
                         score |-> found.val.result_scores[i],
                         s3_key |-> found.val.result_frame_ids[i]]]))

\* get_frames_by_s3_keys with a cursor read one document short
get_frames_by_s3_keys_short(s3_keys, collection, db_raises) ==
    IF s3_keys = <<>> THEN Returned(<<>>)
    ELSE IF db_raises THEN PyMongoError
    ELSE Returned(ToList(
            SelectSeq(collection, LAMBDA doc :
                \E i \in 1..Len(s3_keys) : s3_keys[i] = doc["s3_key"]),
            Len(s3_keys) - 1))

\* find({"s3_key": {"$in": s3_keys}}).to_list(length=len(s3_keys))
get_frames_by_s3_keys(s3_keys, collection, db_raises) ==
    IF s3_keys = <<>> THEN Returned(<<>>)
    ELSE IF db_raises THEN PyMongoError
    ELSE Returned(ToList(
            SelectSeq(collection, LAMBDA doc :
                \E i \in 1..Len(s3_keys) : s3_keys[i] = doc["s3_key"]),
            Len(s3_keys)))

\* {doc["s3_key"]: doc for doc in frame_docs}: the last document of a key stays
FrameLookup(frame_docs) ==
    [k \in {frame_docs[i]["s3_key"] : i \in 1..Len(frame_docs)} |->
        LET last == CHOOSE i \in 1..Len(frame_docs) :
                        /\ frame_docs[i]["s3_key"] = k
                        /\ \A j \in (i + 1)..Len(frame_docs) : frame_docs[j]["s3_key"] # k
        IN frame_docs[last]]

\* The loop over search_results from turn i on.  frame_doc is the dict held in
\* frame_lookup, not a copy: the assignment of the score writes into it, and
\* frames_with_scores holds references to those dicts (refs: their keys).
\* The result is the heap after the loop: the dicts and the references.
RECURSIVE CombineState(_, _, _, _)
CombineState(search_results, i, frame_lookup, refs) ==
    IF i > Len(search_results)
    THEN [frame_lookup |-> frame_lookup, refs |-> refs]
    ELSE LET result == search_results[i]
         IN IF result.s3_key \in DOMAIN frame_lookup
            THEN CombineState(search_results, i + 1,
                     [frame_lookup EXCEPT ![result.s3_key] =
                         Put(frame_lookup[result.s3_key], "score", result.score)],
                     Append(refs, result.s3_key))
            ELSE CombineState(search_results, i + 1, frame_lookup, refs)

\* frames_with_scores as it is serialised at the return
CombineLoop(search_results, i, frame_lookup, refs) ==
    LET after == CombineState(search_results, i, frame_lookup, refs)
    IN [j \in 1..Len(after.refs) |-> after.frame_lookup[after.refs[j]]]

\* The documents of frame_docs at the return of the handler: a document is
\* the dict frame_lookup holds for its key when it is the last of that key
FrameDocsAfter(search_results, frame_docs) ==
    LET after == CombineState(search_results, 1, FrameLookup(frame_docs), <<>>)
    IN [i \in 1..Len(frame_docs) |->
           IF \A j \in (i + 1)..Len(frame_docs) :
                  frame_docs[j]["s3_key"] # frame_docs[i]["s3_key"]
           THEN after.frame_lookup[frame_docs[i]["s3_key"]]
           ELSE frame_docs[i]]

\* except Exception as e: raise HTTPException(status_code=500, ...).
\* HTTPException is an Exception: the clause catches the handler's own 503 too.
SearchExcept(e) == HTTPException(500)

search_handler(request, answer, collection, db_raises) ==
    IF ~is_loaded THEN SearchExcept(HTTPException(503))
    ELSE LET search_results == search_text(answer, request.limit)
         IN IF ~search_results.ok THEN SearchExcept(search_results)
            ELSE LET s3_keys == [i \in 1..Len(search_results.val) |->
                                    search_results.val[i].s3_key]
                     frame_docs == get_frames_by_s3_keys(s3_keys, collection, db_raises)
                 IN IF ~frame_docs.ok THEN SearchExcept(frame_docs)
                    ELSE FrameResponse(CombineLoop(search_results.val, 1,
                                                   FrameLookup(frame_docs.val), <<>>))

\* frame_docs of a request, as fetched (empty when the handler does not get
\* as far as the fetch)
FetchedDocs(answer, limit, collection, db_raises) ==
    LET search_results == search_text(answer, limit)
    IN IF ~search_results.ok THEN <<>>
       ELSE LET frame_docs == get_frames_by_s3_keys(
                    [i \in 1..Len(search_results.val) |-> search_results.val[i].s3_key],
                    collection, db_raises)
            IN IF frame_docs.ok THEN frame_docs.val ELSE <<>>

\* The same documents when the handler returns
FetchedDocsAfter(answer, limit, collection, db_raises) ==
    LET search_results == search_text(answer, limit)
    IN IF ~search_results.ok THEN <<>>
       ELSE FrameDocsAfter(search_results.val,
                           FetchedDocs(answer, limit, collection, db_raises))

(***************************************************************************)
(* Search inputs                                                           *)
(***************************************************************************)
MaxK == 3

\* The ordinal table (frame_ids): one identifier per indexed vector.  A frame
\* embedded twice has two ordinals.  An empty list is a table too.
Tables == {<<"A", "B", "C">>, <<"A", "B", "A">>, <<>>}

\* -1 is FAISS's "no neighbour"; 3 is past the end of a table of three
Ordinals == (0 - 1)..3
Distances == {1, 2}

\* The index names a vector at most once in an answer
IndexAnswers(limit) ==
    UNION {{[indices |-> ix, distances |-> ds] : 
                ix \in {f \in [1..n -> Ordinals] :
                          \A i, j \in 1..n : (i # j /\ f[i] \in 0..2) => f[i] # f[j]},
                ds \in [1..n -> Distances]} : n \in 0..limit}

NotAsked == [indices |-> <<>>, distances |-> <<>>, asked |-> FALSE]

SearchDoc(k) ==
    [s3_key |-> k, video_id |-> Some(VidA), pts_time |-> Some(1237), fps |-> Some(25)]

SearchStores ==
    {SelectSeq(<<SearchDoc("A"), SearchDoc("B"), SearchDoc("C")>>,
               LAMBDA doc : doc["s3_key"] \in present) : present \in SUBSET {"A", "B", "C"}}

SearchInit ==
    /\ CodecIdle /\ EnrichIdle /\ NeighborIdle
    /\ files \in SearchStores
    /\ tokenizer = FALSE /\ model = FALSE /\ faiss_index = FALSE
    /\ frame_ids = None
    /\ spc = "boot"
    /\ sreq = <<>>
    /\ sresp = <<>>
    /\ strace = <<>>

\* load_models: the components are loaded in this order, and the first one
\* that fails leaves the later ones unset (stage: how many were loaded).  A
\* server started without load_models is stage 0.
LoadModels ==
    /\ spc = "boot"
    /\ \E stage \in 0..4, table \in Tables :
          /\ tokenizer' = (stage >= 1)
          /\ model' = (stage >= 2)
          /\ faiss_index' = (stage >= 3)
          /\ frame_ids' = IF stage >= 4 THEN Some(table) ELSE None
    /\ spc' = "idle"
    /\ UNCHANGED <<sreq, sresp, strace>>
    /\ UNCHANGED <<codecVars, enrichVars, neighborVars, files>>

\* POST /search
Search ==
    /\ spc = "idle"
    /\ \E limit \in 1..MaxK, db_raises \in BOOLEAN :
         \E answer \in IF is_loaded THEN IndexAnswers(limit) ELSE {NotAsked} :
          /\ sreq' = [query |-> "q", limit |-> limit, db_raises |-> db_raises]
          /\ sresp' = search_handler(sreq', answer, files, db_raises)
          /\ strace' = [answer |-> answer,
                        found |-> IF is_loaded THEN vector_search(answer, limit)
                                  ELSE RuntimeError,
                        frame_docs |-> FetchedDocs(answer, limit, files, db_raises),
                        frame_docs_after |->
                            FetchedDocsAfter(answer, limit, files, db_raises)]
    /\ spc' = "done"
    /\ UNCHANGED engineVars
    /\ UNCHANGED <<codecVars, enrichVars, neighborVars, files>>

SearchNext == LoadModels \/ Search

SpecSearch == SearchInit /\ [][SearchNext]_vars

(***************************************************************************)
(* Search claims                                                           *)
(***************************************************************************)
SearchDone == spc = "done"
SearchOk == spc = "done" /\ sresp.status = 200

\* Entry p of the index answer names frame f at f's score
Yields(p, f) ==
    LET a == strace.answer
    IN /\ p \in 1..Len(a.indices)
       /\ a.indices[p] >= 0 /\ a.indices[p] < Len(frame_ids[1])
       /\ frame_ids[1][a.indices[p] + 1] = f["s3_key"]
       /\ a.distances[p] = f["score"]

\* C1: the frames of a search response are in ascending order of score, and
\* two frames of equal score are in the order in which the index returned them.
C1_AscendingStable ==
    SearchOk =>
        \A i, j \in 1..Len(sresp.frames) : i < j =>
            /\ sresp.frames[i]["score"] <= sresp.frames[j]["score"]
            /\ sresp.frames[i]["score"] = sresp.frames[j]["score"] =>
                  \E p, q \in 1..Len(strace.answer.indices) :
                      p < q /\ Yields(p, sresp.frames[i]) /\ Yields(q, sresp.frames[j])

\* C5: with the embedding model, the index or the ordinal table not loaded, a
\* search ends in the service-unavailable outcome (503), which is neither the
\* successful empty result (200) nor the generic failure (500).
C5_Unavailable503 ==
    (SearchDone /\ ~is_loaded) => sresp.status = 503

Enriched(frame) == "watch_url" \in DOMAIN frame /\ "video_fps" \in DOMAIN frame

\* C6: every frame returned by /search and by /neighbors carries watch_url and
\* video_fps.
C6_ReturnedFramesEnriched ==
    /\ SearchOk => \A i \in 1..Len(sresp.frames) : Enriched(sresp.frames[i])
    /\ (npc = "done" /\ nresp.status = 200) =>
           \A i \in 1..Len(nresp.frames) : Enriched(nresp.frames[i])

\* vector_search was reached, with an answer of the index
VectorSearchCalled == SearchDone /\ is_loaded

ValidEntries ==
    {i \in 1..Len(strace.answer.indices) :
        strace.answer.indices[i] \in 0..(Len(frame_ids[1]) - 1)}

\* vector_search returned, in index order, exactly the entries whose ordinal
\* is in the table, each with its own distance
ExactlyTheValidEntries ==
    /\ strace.found.ok
    /\ Len(strace.found.val.result_frame_ids) = Cardinality(ValidEntries)
    /\ Len(strace.found.val.result_scores) = Cardinality(ValidEntries)
    /\ \A i \in ValidEntries :
          LET m == Cardinality({j \in ValidEntries : j <= i})
          IN /\ strace.found.val.result_frame_ids[m] =
                    frame_ids[1][strace.answer.indices[i] + 1]
             /\ strace.found.val.result_scores[m] = strace.answer.distances[i]

Ranked == search_text(strace.answer, sreq.limit)

Stored(k) == \E i \in 1..Len(files) : files[i]["s3_key"] = k

\* The ranked results that have a record in the store, in ranked order
Survivors == SelectSeq(Ranked.val, LAMBDA r : Stored(r.s3_key))

\* frame has every field of some stored record, with the stored value
IsStoredRecord(frame) ==
    \E i \in 1..Len(files) :
        \A field \in DOMAIN files[i] :
            field \in DOMAIN frame /\ frame[field] = files[i][field]

\* C11: when the ranking and the fetch succeed, identifiers without a stored
\* record are dropped without error: the response is a success whose frames
\* are the ranked results that have a record, in ranked order, and whose
\* count is the number of frames.
C11_StaleEntriesDropped ==
    (SearchDone /\ is_loaded /\ Ranked.ok /\ ~sreq.db_raises) =>
        /\ sresp.status = 200
        /\ sresp.count = Len(sresp.frames)
        /\ Len(sresp.frames) = Len(Survivors)
        /\ \A i \in 1..Len(sresp.frames) :
              /\ sresp.frames[i]["s3_key"] = Survivors[i].s3_key
              /\ IsStoredRecord(sresp.frames[i])

C11_Witness ==
    /\ SearchOk /\ Ranked.ok
    /\ Len(Ranked.val) = 3
    /\ ~Stored(Ranked.val[2].s3_key)
    /\ Len(sresp.frames) = 2

\* C12: no step of the search handler changes a record as fetched from the
\* document store: when the handler returns, every fetched record has exactly
\* the fields and values it had when fetched.
C12_FetchedRecordsUnchanged ==
    SearchOk => strace.frame_docs_after = strace.frame_docs

\* C15: the score of the i-th returned frame is the distance of the i-th ranked
\* result that has a stored record, also when one identifier is ranked twice.
C15_ScoreOfOwnResult ==
    (SearchDone /\ is_loaded /\ Ranked.ok /\ ~sreq.db_raises) =>
        /\ sresp.status = 200
        /\ Len(sresp.frames) = Len(Survivors)
        /\ \A i \in 1..Len(sresp.frames) :
              sresp.frames[i]["score"] = Survivors[i].score

====
